---- MODULE Spec2Model ----
(***************************************************************************)
(* State-machine model of news_hub/scripts/build_site.py: the collection   *)
(* loop of main() over the configured sources, the per-topic aggregation   *)
(* (dedupe_by_url, sort_newest), the digest builder (make_digest_block),   *)
(* the timestamp resolver (entry_timestamp, parse_timestamp_fallback,      *)
(* iso_timestamp) and the writer of news_log.csv.                          *)
(*                                                                         *)
(* Python strings are TLA+ strings; a Python dict is a record, and         *)
(* d.get(k, default) is Get(d, k, default).  A call that may raise returns *)
(* a record [raised, err, value] where err is str(e).                      *)
(***************************************************************************)
EXTENDS Integers, Sequences, FiniteSets, TLC

VARIABLES
    cfg_news,               \* parsed news.yaml (line 211)
    day,                    \* what the sources have to offer: a quiet or a busy day
    local_offset,           \* UTC offset of the machine's zone, used by time.mktime
    runs,                   \* number of completed executions of main()
    pc,                     \* position inside main(): idle, collect, rank, log, done
    run_at,                 \* now_jst() of the current run (line 220)
    api_key,                \* os.getenv("EDINET_API_KEY"), the same in every run
    si,                     \* index of the next source in the collection loop
    all_items,              \* line 223
    sources_status_lines,   \* line 224
    trace,                  \* per processed source: what its loop did
    inv_items, gen_items,   \* lines 326-327
    digest_investing, digest_general,   \* lines 330-331 (the digest lines)
    all_sorted,             \* line 385
    log_exists, log,        \* news_log.csv: whether the file exists, its rows
    log_before,             \* rows of news_log.csv when the current run opened it
    fn_pc, fn_in, fn_out    \* a single call of one function: position, arguments, result

pipe_vars == <<cfg_news, day, local_offset, runs, pc, run_at, api_key, si, all_items,
               sources_status_lines, trace, inv_items, gen_items, digest_investing,
               digest_general, all_sorted, log_exists, log, log_before>>
fn_vars == <<fn_pc, fn_in, fn_out>>
vars == <<pipe_vars, fn_vars>>

Null == [kind |-> "None"]

(***************************************************************************)
(* Python built-ins used by the script                                     *)
(***************************************************************************)
Get(d, k, default) == IF k \in DOMAIN d THEN d[k] ELSE default

Min(a, b) == IF a <= b THEN a ELSE b

\* seq[:n]
Take(s, n) == SubSeq(s, 1, Min(n, Len(s)))

Ch(s, i) == SubSeq(s, i, i)

\* characters str.strip() removes and the regex class \s matches
Whitespace == {" ", "\t", "\n", "\r", "\f"}

Digits == {"0", "1", "2", "3", "4", "5", "6", "7", "8", "9"}

RECURSIVE FirstNonWs(_, _)
FirstNonWs(s, i) ==
    IF i > Len(s) THEN i
    ELSE IF Ch(s, i) \in Whitespace THEN FirstNonWs(s, i + 1) ELSE i

RECURSIVE LastNonWs(_, _)
LastNonWs(s, i) ==
    IF i < 1 THEN i
    ELSE IF Ch(s, i) \in Whitespace THEN LastNonWs(s, i - 1) ELSE i

\* str.strip()
Strip(s) ==
    LET a == FirstNonWs(s, 1)
        b == LastNonWs(s, Len(s))
    IN  IF a > b THEN "" ELSE SubSeq(s, a, b)

\* A loop over a string or a list is written as a left-to-right pass over the
\* positions lo..hi that handles the two halves of the range in turn, the first
\* half before the second.  Computed(acc) is true of every value; testing it makes
\* the result of the first half a value before the second half starts.
Computed(acc) == acc = acc

\* str.replace("\n", " ")
RECURSIVE ReplaceNewlinesIn(_, _, _)
ReplaceNewlinesIn(s, lo, hi) ==
    IF lo > hi THEN ""
    ELSE IF lo = hi THEN (IF Ch(s, lo) = "\n" THEN " " ELSE Ch(s, lo))
    ELSE LET mid == (lo + hi) \div 2
         IN  ReplaceNewlinesIn(s, lo, mid) \o ReplaceNewlinesIn(s, mid + 1, hi)

ReplaceNewlines(s) == ReplaceNewlinesIn(s, 1, Len(s))

\* kw in text
Contains(text, kw) ==
    \E i \in 1..(Len(text) + 1) :
        /\ i + Len(kw) - 1 <= Len(text)
        /\ SubSeq(text, i, i + Len(kw) - 1) = kw

\* any(k in text for k in kws)
AnyIn(kws, text) == \E j \in 1..Len(kws) : Contains(text, kws[j])

\* int() of a string of decimal digits
RECURSIVE DigitsToInt(_)
DigitsToInt(s) ==
    IF s = "" THEN 0
    ELSE LET c == Ch(s, Len(s))
             v == CASE c = "0" -> 0 [] c = "1" -> 1 [] c = "2" -> 2 [] c = "3" -> 3
                    [] c = "4" -> 4 [] c = "5" -> 5 [] c = "6" -> 6 [] c = "7" -> 7
                    [] c = "8" -> 8 [] c = "9" -> 9
         IN  10 * DigitsToInt(SubSeq(s, 1, Len(s) - 1)) + v

AllDigits(s, p, n) ==
    /\ p >= 1
    /\ p + n - 1 <= Len(s)
    /\ \A i \in p..(p + n - 1) : Ch(s, i) \in Digits

\* " ".join(seq)
RECURSIVE JoinSpace(_)
JoinSpace(seq) ==
    IF seq = <<>> THEN ""
    ELSE IF Len(seq) = 1 THEN seq[1]
    ELSE seq[1] \o " " \o JoinSpace(Tail(seq))

\* line 30
safe_text(x) == Strip(ReplaceNewlines(x))

(***************************************************************************)
(* Calendar arithmetic of datetime.datetime and datetime.timestamp()       *)
(***************************************************************************)
JstOffset == 32400

SecondsPerDay == 86400

IsLeap(y) == (y % 4 = 0 /\ y % 100 # 0) \/ y % 400 = 0

DaysInMonth(y, m) ==
    CASE m \in {1, 3, 5, 7, 8, 10, 12} -> 31
      [] m \in {4, 6, 9, 11} -> 30
      [] m = 2 -> IF IsLeap(y) THEN 29 ELSE 28

LeapsThrough(y) == (y \div 4) - (y \div 100) + (y \div 400)

RECURSIVE DaysBeforeMonth(_, _)
DaysBeforeMonth(y, m) ==
    IF m <= 1 THEN 0 ELSE DaysBeforeMonth(y, m - 1) + DaysInMonth(y, m - 1)

\* days from 1970-01-01 to y-m-d
DaysFromEpoch(y, m, d) ==
    365 * (y - 1970) + (LeapsThrough(y - 1) - LeapsThrough(1969))
        + DaysBeforeMonth(y, m) + (d - 1)

\* datetime.datetime(y, m, d, hh, mi, tzinfo=...): the constructor validates its
\* fields and raises ValueError; value is the instant in epoch seconds.
MakeDatetime(y, m, d, hh, mi, ss, offset) ==
    IF m < 1 \/ m > 12
    THEN [raised |-> TRUE, err |-> "month must be in 1..12", value |-> 0]
    ELSE IF d < 1 \/ d > DaysInMonth(y, m)
    THEN [raised |-> TRUE, err |-> "day is out of range for month", value |-> 0]
    ELSE IF hh < 0 \/ hh > 23
    THEN [raised |-> TRUE, err |-> "hour must be in 0..23", value |-> 0]
    ELSE IF mi < 0 \/ mi > 59
    THEN [raised |-> TRUE, err |-> "minute must be in 0..59", value |-> 0]
    ELSE IF ss < 0 \/ ss > 59
    THEN [raised |-> TRUE, err |-> "second must be in 0..59", value |-> 0]
    ELSE [raised |-> FALSE, err |-> "",
          value |-> DaysFromEpoch(y, m, d) * SecondsPerDay
                      + hh * 3600 + mi * 60 + ss - offset]

\* the instant of a run time [year, month, day, hour, minute, second] in JST
NowEpoch(now_dt) ==
    MakeDatetime(now_dt.year, now_dt.month, now_dt.day,
                 now_dt.hour, now_dt.minute, now_dt.second, JstOffset).value

(***************************************************************************)
(* Timestamp resolver, lines 54-106                                        *)
(***************************************************************************)
CharIn(s, i, set) == i >= 1 /\ i <= Len(s) /\ Ch(s, i) \in set

\* The matches of  (\d{1,2})/(\d{1,2})\s+(\d{1,2}):(\d{2})  (line 75) that start at
\* position p; the pattern admits at most one at a given start.
MdhmMatchesAt(s, p) ==
    { [m |-> DigitsToInt(SubSeq(s, p, p + x[1] - 1)),
       d |-> DigitsToInt(SubSeq(s, p + x[1] + 1, p + x[1] + x[2])),
       h |-> DigitsToInt(SubSeq(s, p + x[1] + x[2] + x[3] + 1,
                                   p + x[1] + x[2] + x[3] + x[4])),
       mi |-> DigitsToInt(SubSeq(s, p + x[1] + x[2] + x[3] + x[4] + 2,
                                    p + x[1] + x[2] + x[3] + x[4] + 3))] :
      x \in { y \in {1, 2} \X {1, 2} \X (1..Len(s)) \X {1, 2} :
                /\ AllDigits(s, p, y[1])
                /\ CharIn(s, p + y[1], {"/"})
                /\ AllDigits(s, p + y[1] + 1, y[2])
                /\ \A i \in (p + y[1] + y[2] + 1)..(p + y[1] + y[2] + y[3]) :
                       CharIn(s, i, Whitespace)
                /\ AllDigits(s, p + y[1] + y[2] + y[3] + 1, y[4])
                /\ CharIn(s, p + y[1] + y[2] + y[3] + y[4] + 1, {":"})
                /\ AllDigits(s, p + y[1] + y[2] + y[3] + y[4] + 2, 2) } }

\* the matches at every start, each with its start
MdhmMatches(s) ==
    UNION { { [start |-> p, groups |-> g] : g \in MdhmMatchesAt(s, p) } : p \in 1..Len(s) }

\* the match at the leftmost start, or no match
LeftmostMatch(matches) ==
    IF matches = {} THEN [found |-> FALSE]
    ELSE LET first == CHOOSE r \in matches : \A q \in matches : r.start <= q.start
         IN  [found |-> TRUE, m |-> first.groups.m, d |-> first.groups.d,
              h |-> first.groups.h, mi |-> first.groups.mi]

\* re.search (line 75)
MdhmSearch(s) == LeftmostMatch(MdhmMatches(s))

\* what dateutil returns for the fields it read: out-of-range fields raise
ParsedDatetime(dt, naive, s) ==
    IF dt.raised
    THEN [raised |-> TRUE, err |-> "Unknown string format: " \o s,
          naive |-> TRUE, value |-> 0]
    ELSE [raised |-> FALSE, err |-> "", naive |-> naive, value |-> dt.value]

\* dateutil.parser.parse (lines 89, 101) on the strings the sources send:
\* YYYY-MM-DD, 'T' or a space, HH:MM, optional :SS, optional Z or +HH:MM.  Any other
\* string, and any out-of-range field, raises ParserError.  tz is "naive" when the
\* string carries no zone.
DateutilParse(s) ==
    LET bad == [raised |-> TRUE, err |-> "Unknown string format: " \o s,
                naive |-> TRUE, value |-> 0]
        shape == /\ Len(s) >= 16
                 /\ AllDigits(s, 1, 4) /\ Ch(s, 5) = "-"
                 /\ AllDigits(s, 6, 2) /\ Ch(s, 8) = "-"
                 /\ AllDigits(s, 9, 2) /\ Ch(s, 11) \in {"T", " "}
                 /\ AllDigits(s, 12, 2) /\ Ch(s, 14) = ":"
                 /\ AllDigits(s, 15, 2)
        hasSec == Len(s) >= 19 /\ Ch(s, 17) = ":" /\ AllDigits(s, 18, 2)
        rest == IF hasSec THEN SubSeq(s, 20, Len(s)) ELSE SubSeq(s, 17, Len(s))
        zoneOk == \/ rest \in {"", "Z"}
                  \/ /\ Len(rest) = 6 /\ Ch(rest, 1) = "+" /\ AllDigits(rest, 2, 2)
                     /\ Ch(rest, 4) = ":" /\ AllDigits(rest, 5, 2)
        offset == IF rest = "" \/ rest = "Z" THEN 0
                  ELSE DigitsToInt(SubSeq(rest, 2, 3)) * 3600
                         + DigitsToInt(SubSeq(rest, 5, 6)) * 60
    IN  IF ~shape THEN bad
        ELSE IF ~zoneOk THEN bad
        ELSE ParsedDatetime(
                 MakeDatetime(DigitsToInt(SubSeq(s, 1, 4)),
                              DigitsToInt(SubSeq(s, 6, 7)),
                              DigitsToInt(SubSeq(s, 9, 10)),
                              DigitsToInt(SubSeq(s, 12, 13)),
                              DigitsToInt(SubSeq(s, 15, 16)),
                              IF hasSec THEN DigitsToInt(SubSeq(s, 18, 19)) ELSE 0,
                              offset),
                 rest = "", s)

\* lines 90-92 and 102-104 on what the parser returns: JST when the result is
\* naive (a naive result was computed with offset 0); an exception gives 0
TimestampOrZero(dt) ==
    IF dt.raised THEN 0
    ELSE IF dt.naive THEN dt.value - JstOffset
    ELSE dt.value

\* lines 88-94 and 100-106
ParseOrZero(s) == TimestampOrZero(DateutilParse(s))

\* lines 83-86 on the datetime of line 82: an exception of the constructor
\* propagates; a date more than a day ahead of the run time moves to the year before
RollBack(dt, m, now_dt) ==
    IF dt.raised THEN dt
    ELSE IF dt.value > NowEpoch(now_dt) + SecondsPerDay
    THEN MakeDatetime(now_dt.year - 1, m.m, m.d, m.h, m.mi, 0, JstOffset)
    ELSE dt

\* lines 76-94 on the result m of the search of line 75
ResolveMatch(m, s, now_dt) ==
    IF m.found
    THEN RollBack(MakeDatetime(now_dt.year, m.m, m.d, m.h, m.mi, 0, JstOffset),
                  m, now_dt)
    ELSE [raised |-> FALSE, err |-> "", value |-> ParseOrZero(s)]

\* lines 72-94 on the stripped string
ResolveStripped(s, now_dt) ==
    IF s = "" THEN [raised |-> FALSE, err |-> "", value |-> 0]
    ELSE ResolveMatch(MdhmSearch(s), s, now_dt)

\* lines 64-94
parse_timestamp_fallback(published_str, now_dt) ==
    ResolveStripped(Strip(published_str), now_dt)

\* lines 96-106
iso_timestamp(s) == IF s = "" THEN 0 ELSE ParseOrZero(s)

\* time.mktime(t) (line 59) of a struct_time [year, month, day, hour, minute,
\* second], read in the machine's zone; None is not converted
Mktime(t, offset) ==
    IF t = Null THEN [raised |-> FALSE, err |-> "", value |-> 0]
    ELSE MakeDatetime(t.year, t.month, t.day, t.hour, t.minute, t.second, offset)

\* lines 58-62: any exception is turned into 0
ValueOrZero(dt) == IF dt.raised THEN 0 ELSE dt.value

\* lines 54-62.  published_parsed / updated_parsed are None or a struct_time.
entry_timestamp(e, offset) ==
    ValueOrZero(Mktime(IF Get(e, "published_parsed", Null) # Null
                       THEN e.published_parsed
                       ELSE Get(e, "updated_parsed", Null),
                       offset))

(***************************************************************************)
(* Aggregator, lines 142-162                                               *)
(***************************************************************************)
\* DedupeStep without the test of line 148: an empty URL counts as a URL
DedupeStepKeepsEmptyUrl(acc, it) ==
    LET u == Get(it, "url", "")
    IN  IF u \in acc.seen THEN acc
        ELSE [seen |-> acc.seen \cup {u}, out |-> Append(acc.out, it)]

\* lines 146-153: one iteration; acc is [seen, out]
DedupeStep(acc, it) ==
    LET u == Get(it, "url", "")
    IN  IF u = "" THEN acc
        ELSE IF u \in acc.seen THEN acc
        ELSE [seen |-> acc.seen \cup {u}, out |-> Append(acc.out, it)]

RECURSIVE DedupeLoop(_, _, _, _)
DedupeLoop(items, lo, hi, acc) ==
    IF lo > hi THEN acc
    ELSE IF lo = hi THEN DedupeStep(acc, items[lo])
    ELSE LET mid == (lo + hi) \div 2
             left == DedupeLoop(items, lo, mid, acc)
         IN  IF Computed(left) THEN DedupeLoop(items, mid + 1, hi, left) ELSE left

\* lines 142-154
dedupe_by_url(items) ==
    DedupeLoop(items, 1, Len(items), [seen |-> {}, out |-> <<>>]).out

\* sorted(items, key=...): a stable sort; keys[i] is the key tuple of items[i].
KeyBefore(k1, k2) == k1[1] < k2[1] \/ (k1[1] = k2[1] /\ k1[2] < k2[2])

\* order: indexes of the items placed so far; i goes behind every index whose key
\* is not strictly greater than its own.
StableInsert(order, i, keys) ==
    LET later == { n \in 1..Len(order) : KeyBefore(keys[i], keys[order[n]]) }
        pos == IF later = {} THEN Len(order) + 1
               ELSE CHOOSE n \in later : \A m \in later : n <= m
    IN  SubSeq(order, 1, pos - 1) \o <<i>> \o SubSeq(order, pos, Len(order))

RECURSIVE StableOrder(_, _, _, _)
StableOrder(keys, lo, hi, order) ==
    IF lo > hi THEN order
    ELSE IF lo = hi THEN StableInsert(order, lo, keys)
    ELSE LET mid == (lo + hi) \div 2
             left == StableOrder(keys, lo, mid, order)
         IN  IF Computed(left) THEN StableOrder(keys, mid + 1, hi, left) ELSE left

StableSort(items, keys) ==
    LET order == StableOrder(keys, 1, Len(keys), <<>>)
    IN  [n \in 1..Len(items) |-> items[order[n]]]

DefaultImportance == 3

\* NewestKey with the two components of the key swapped
NewestKeyTimeFirst(x) ==
    <<-(Get(x, "published_ts", 0)), -(Get(x, "importance", DefaultImportance))>>

\* line 160: key = (-importance, -published_ts)
NewestKey(x) ==
    <<-(Get(x, "importance", DefaultImportance)), -(Get(x, "published_ts", 0))>>

\* lines 156-162
sort_newest(items) ==
    StableSort(items, [n \in 1..Len(items) |-> NewestKey(items[n])])

(***************************************************************************)
(* Digest builder, lines 164-206                                           *)
(***************************************************************************)
\* re.sub(r"\s+", " ", t): a run of whitespace leaves one space, written where the
\* run starts
RECURSIVE CollapseWsIn(_, _, _)
CollapseWsIn(t, lo, hi) ==
    IF lo > hi THEN ""
    ELSE IF lo = hi
    THEN IF Ch(t, lo) \notin Whitespace THEN Ch(t, lo)
         ELSE IF CharIn(t, lo - 1, Whitespace) THEN "" ELSE " "
    ELSE LET mid == (lo + hi) \div 2
         IN  CollapseWsIn(t, lo, mid) \o CollapseWsIn(t, mid + 1, hi)

CollapseWs(t) == CollapseWsIn(t, 1, Len(t))

\* re.sub(r"^\[[^\]]+\]\s*", "", t)
StripLeadingBracket(t) ==
    LET closes == { i \in 2..Len(t) : Ch(t, i) = "]" }
        p == CHOOSE i \in closes : \A j \in closes : i <= j
    IN  IF t # "" /\ Head(t) = "[" /\ closes # {} /\ p >= 3
        THEN SubSeq(t, FirstNonWs(t, p + 1), Len(t))
        ELSE t

\* lines 164-170
clean_title_for_digest(title) == CollapseWs(StripLeadingBracket(Strip(title)))

InSeq(x, seq) == \E i \in 1..Len(seq) : seq[i] = x

DigestTitleMax == 80

DigestTitleKeep == 77

DefaultMaxLines == 6

\* the one-character ellipsis U+2026 of line 185
Ellipsis == "~"

\* line 174: key = published_ts with reverse=True, which keeps items of equal key
\* in input order: the stable ascending order of -published_ts
DigestKey(x) == <<-(Get(x, "published_ts", 0)), 0>>

\* lines 179-188 on the cleaned title of line 178; acc is [lines, stop], stop set
\* by the break
DigestTitle(acc, title, max_lines) ==
    IF acc.stop THEN acc
    ELSE IF title = "" THEN acc
    ELSE IF InSeq(title, acc.lines) THEN acc
    ELSE [lines |-> Append(acc.lines,
                           IF Len(title) > DigestTitleMax
                           THEN SubSeq(title, 1, DigestTitleKeep) \o Ellipsis
                           ELSE title),
          stop |-> Len(acc.lines) + 1 >= max_lines]

\* lines 177-188: one iteration
DigestStep(acc, it, max_lines) ==
    DigestTitle(acc, clean_title_for_digest(Get(it, "title", "")), max_lines)

RECURSIVE DigestLoop(_, _, _, _, _)
DigestLoop(sorted_items, lo, hi, acc, max_lines) ==
    IF lo > hi THEN acc
    ELSE IF lo = hi THEN DigestStep(acc, sorted_items[lo], max_lines)
    ELSE LET mid == (lo + hi) \div 2
             left == DigestLoop(sorted_items, lo, mid, acc, max_lines)
         IN  IF left.stop THEN left
             ELSE DigestLoop(sorted_items, mid + 1, hi, left, max_lines)

\* lines 172-188: the digest lines (lines 190-206 wrap them in markup)
make_digest_block(items, max_lines) ==
    DigestLoop(StableSort(items, [n \in 1..Len(items) |-> DigestKey(items[n])]),
               1, Len(items), [lines |-> <<>>, stop |-> FALSE], max_lines).lines

(***************************************************************************)
(* Rule engine and source adapters: the collection loop of main()          *)
(***************************************************************************)
\* x or y, on strings
OrStr(x, y) == IF x # "" THEN x ELSE y

\* lines 44-52; tag_keywords is the dict as a sequence of [tag, kws] in key order
tag_from_keywords(title, summary, tag_keywords) ==
    LET text == title \o " " \o summary
        hit == SelectSeq(tag_keywords, LAMBDA tk : AnyIn(tk.kws, text))
    IN  [n \in 1..Len(hit) |-> hit[n].tag]

\* FilterDrops without the allow override of line 249
FilterDropsDenyOnly(joined, allow_keywords, deny_keywords) ==
    AnyIn(deny_keywords, joined)

\* lines 247-249: the entry is skipped
FilterDrops(joined, allow_keywords, deny_keywords) ==
    LET allow_hit == AnyIn(allow_keywords, joined)
        deny_hit == AnyIn(deny_keywords, joined)
    IN  deny_hit /\ ~allow_hit

\* cfg_llm.get("llm", {}).get("mode", "manual_preferred") with the shipped llm.yaml
LlmMode == "manual_preferred"

RssCap == 50

EdinetCap == 400

SummaryMax == 180

EdinetImportance == 4

\* lines 258-273
RssItem(pack_name, src, title, url, summary, published, published_ts, tags) ==
    [id |-> pack_name \o ":" \o Get(src, "id", "None") \o ":" \o url,
     topic_pack |-> pack_name,
     source |-> Get(src, "name", "None"),
     title |-> title,
     url |-> url,
     published_at |-> published,
     published_ts |-> published_ts,
     summary_short |-> IF summary # "" THEN Take(summary, SummaryMax) ELSE title,
     tags |-> tags,
     importance |-> Get(src, "base_importance", DefaultImportance),
     impact |-> "unclear",
     llm_mode |-> LlmMode,
     llm_draft |-> FALSE,
     llm_confidence |-> "low"]

\* lines 246-273 on the texts and timestamps read from entry i.  acc holds what
\* the loop did so far: the items appended to all_items, the indexes of the
\* entries skipped at line 250 and of the entries appended, and the exception
\* that ended the loop, if any.  An exception leaves the items appended before it
\* in all_items.
RssEntry(pack_name, rules, src, i, acc, published, title, url, summary, ts0, fb) ==
    IF acc.raised THEN acc
    ELSE IF FilterDrops(title \o " " \o summary, Get(rules, "allow_keywords", <<>>),
                        Get(rules, "deny_keywords", <<>>))
    THEN [acc EXCEPT !.dropped = @ \cup {i}]
    ELSE IF ts0 = 0 /\ fb.raised
    THEN [acc EXCEPT !.raised = TRUE, !.err = fb.err]
    ELSE [acc EXCEPT
            !.items = Append(@, RssItem(pack_name, src, title, url, summary, published,
                                        IF ts0 = 0 THEN fb.value ELSE ts0,
                                        tag_from_keywords(title, summary,
                                            Get(rules, "tag_keywords", <<>>)))),
            !.appended = Append(@, i)]

\* lines 241-254: what the iteration reads from entry e; published is the text
\* of line 242, fb the fallback of line 254 (consulted only when ts0 is 0)
RssRead(pack_name, rules, src, e, i, acc, now_dt, offset, published) ==
    RssEntry(pack_name, rules, src, i, acc, published,
             safe_text(Get(e, "title", "")),
             safe_text(Get(e, "link", "")),
             safe_text(Get(e, "summary", "")),
             entry_timestamp(e, offset),
             parse_timestamp_fallback(published, now_dt))

\* lines 241-273: one iteration of the loop over feed.entries[:50], for entry i
RssStep(pack_name, rules, src, e, i, acc, now_dt, offset) ==
    RssRead(pack_name, rules, src, e, i, acc, now_dt, offset,
            safe_text(OrStr(Get(e, "published", ""), Get(e, "updated", ""))))

RECURSIVE RssLoop(_, _, _, _, _, _, _, _, _)
RssLoop(pack_name, rules, src, entries, lo, hi, acc, now_dt, offset) ==
    IF lo > hi THEN acc
    ELSE IF lo = hi
    THEN RssStep(pack_name, rules, src, entries[lo], lo, acc, now_dt, offset)
    ELSE LET mid == (lo + hi) \div 2
             left == RssLoop(pack_name, rules, src, entries, lo, mid, acc,
                             now_dt, offset)
         IN  IF left.raised THEN left
             ELSE RssLoop(pack_name, rules, src, entries, mid + 1, hi, left,
                          now_dt, offset)

\* a JSON value that is not an object: None, a list, a string
IsDict(v) == "kind" \notin DOMAIN v

\* lines 288-311
EdinetItem(pack_name, src, r) ==
    LET title == safe_text(Get(r, "docDescription", ""))
        filer == safe_text(Get(r, "filerName", ""))
        sec == safe_text(Get(r, "secCode", ""))
        doc_id == safe_text(Get(r, "docID", ""))
        published == safe_text(Get(r, "submitDateTime", ""))
    IN  [id |-> pack_name \o ":" \o Get(src, "id", "None") \o ":" \o doc_id,
         topic_pack |-> pack_name,
         source |-> Get(src, "name", "None"),
         title |-> IF filer # "" THEN filer \o " " \o title ELSE title,
         url |-> IF doc_id # ""
                 THEN "https://disclosure.edinet-fsa.go.jp/api/v2/documents/"
                        \o doc_id \o "?type=2"
                 ELSE "",
         published_at |-> published,
         published_ts |-> iso_timestamp(published),
         \* the Japanese literals of lines 304-305 are written in ASCII
         summary_short |-> IF sec # ""
                           THEN "EDINET: " \o title \o " / code: " \o sec
                           ELSE "EDINET: " \o title,
         tags |-> <<"disclosure">>,
         importance |-> EdinetImportance,
         impact |-> "unclear",
         llm_mode |-> LlmMode,
         llm_draft |-> TRUE,
         llm_confidence |-> "low"]

\* CodeSkips without the test of doc_type at line 286: a record without a code
\* is skipped like one with a code outside the list
CodeSkipsUntyped(r, include_codes) ==
    LET doc_type == Get(r, "docTypeCode", "")
    IN  include_codes # {} /\ doc_type \notin include_codes

\* lines 285-287: the record is skipped
CodeSkips(r, include_codes) ==
    LET doc_type == Get(r, "docTypeCode", "")
    IN  include_codes # {} /\ doc_type # "" /\ doc_type \notin include_codes

\* lines 285-311: one iteration of the loop over js.get("results", [])[:400]
EdinetStep(pack_name, src, r, include_codes, i, acc) ==
    IF acc.raised THEN acc
    ELSE IF ~IsDict(r)
    THEN [acc EXCEPT !.raised = TRUE,
                     !.err = "'" \o r.kind \o "' object has no attribute 'get'"]
    ELSE IF CodeSkips(r, include_codes)
    THEN [acc EXCEPT !.dropped = @ \cup {i}]
    ELSE [acc EXCEPT !.items = Append(@, EdinetItem(pack_name, src, r)),
                     !.appended = Append(@, i)]

RECURSIVE EdinetLoop(_, _, _, _, _, _, _)
EdinetLoop(pack_name, src, results, include_codes, lo, hi, acc) ==
    IF lo > hi THEN acc
    ELSE IF lo = hi THEN EdinetStep(pack_name, src, results[lo], include_codes, lo, acc)
    ELSE LET mid == (lo + hi) \div 2
             left == EdinetLoop(pack_name, src, results, include_codes, lo, mid, acc)
         IN  IF left.raised THEN left
             ELSE EdinetLoop(pack_name, src, results, include_codes, mid + 1, hi, left)

NoWork == [raised |-> FALSE, err |-> "", items |-> <<>>, dropped |-> {}, appended |-> <<>>]

SeqToSet(s) == { s[n] : n \in 1..Len(s) }

Raised(err) == [NoWork EXCEPT !.raised = TRUE, !.err = err]

\* lines 237-314: the body of the try block for one source.  resp is what the
\* source's fetch returns or raises.  ok and msg are what the body itself stores
\* into st (lines 278-279, 313-314).
TryBody(pack_name, rules, src, resp, key, now_dt, offset) ==
    IF "type" \notin DOMAIN src
    THEN [ok |-> TRUE, msg |-> ""] @@ Raised("'type'")
    ELSE IF src.type = "rss"
    THEN IF resp.raised
         THEN [ok |-> TRUE, msg |-> ""] @@ Raised(resp.err)
         ELSE LET entries == Take(resp.value.entries, RssCap)
              IN  [ok |-> TRUE, msg |-> ""]
                    @@ RssLoop(pack_name, rules, src, entries, 1, Len(entries),
                               NoWork, now_dt, offset)
    ELSE IF src.type = "edinet"
    THEN IF Strip(key) = ""
         THEN [ok |-> FALSE, msg |-> "EDINET_API_KEY not set (skipped)"] @@ NoWork
         ELSE IF resp.raised
         THEN [ok |-> TRUE, msg |-> ""] @@ Raised(resp.err)
         ELSE IF ~IsDict(resp.value)
         THEN [ok |-> TRUE, msg |-> ""]
                @@ Raised("'" \o resp.value.kind \o "' object has no attribute 'get'")
         ELSE LET results == Take(Get(resp.value, "results", <<>>), EdinetCap)
              IN  [ok |-> TRUE, msg |-> ""]
                    @@ EdinetLoop(pack_name, src, results,
                                  SeqToSet(Get(src, "include_doc_type_codes", <<>>)),
                                  1, Len(results), NoWork)
    ELSE [ok |-> FALSE, msg |-> "Unknown source type: " \o src.type] @@ NoWork

\* ExceptStatus without the assignment of line 317
ExceptStatusKeepsOk(st, err) == [st EXCEPT !.error = err]

\* lines 316-318: the except clause
ExceptStatus(st, err) == [st EXCEPT !.ok = FALSE, !.error = err]

\* lines 235-320: the status the source ends with
SourceStatus(src, body) ==
    LET st == [name |-> Get(src, "name", "None"), type |-> Get(src, "type", "None"),
               ok |-> body.ok, error |-> body.msg]
    IN  IF body.raised THEN ExceptStatus(st, body.err) ELSE st

(***************************************************************************)
(* Log writer, lines 384-403                                               *)
(***************************************************************************)
LogCap == 80

BoolStr(b) == IF b THEN "True" ELSE "False"

\* lines 399-403: csv.writer writes every field as text
LogRow(it) ==
    <<it.id, it.topic_pack, it.source, it.title, it.url, it.published_at,
      it.summary_short, JoinSpace(it.tags), ToString(it.importance), it.impact,
      it.llm_mode, BoolStr(it.llm_draft), it.llm_confidence>>

\* lines 387-392.  csv.DictReader takes the first row of the file as the field
\* names; row.get("id", "") is the cell under the field named "id" (the last
\* such field), or "" when no field has that name.
ReadExistingIds(exists, rows) ==
    IF ~exists \/ rows = <<>> THEN {}
    ELSE LET fieldnames == rows[1]
             cols == { c \in 1..Len(fieldnames) : fieldnames[c] = "id" }
             col == CHOOSE c \in cols : \A d \in cols : d <= c
         IN  { IF cols = {} THEN "" ELSE rows[n][col] : n \in 2..Len(rows) }

\* NewRows without the slice of line 396
NewRowsUncapped(sorted_items, existing_ids) ==
    LET fresh == SelectSeq(sorted_items, LAMBDA it : it.id \notin existing_ids)
    IN  [n \in 1..Len(fresh) |-> LogRow(fresh[n])]

\* lines 394-403: the rows appended by one run
NewRows(sorted_items, existing_ids) ==
    LET fresh == SelectSeq(Take(sorted_items, LogCap),
                           LAMBDA it : it.id \notin existing_ids)
    IN  [n \in 1..Len(fresh) |-> LogRow(fresh[n])]

(***************************************************************************)
(* Inputs of a run: the configuration and what the sources answer          *)
(***************************************************************************)
InvestingRules ==
    [allow_keywords |-> <<"earnings">>,
     deny_keywords |-> <<"PR", "sponsored">>,
     tag_keywords |-> << [tag |-> "stock", kws |-> <<"stock", "earnings">>],
                         [tag |-> "fx", kws |-> <<"yen">>] >>]

KabuSrc ==
    [id |-> "kabu", name |-> "Kabu RSS", type |-> "rss",
     url |-> "https://kabu.example/rss", base_importance |-> 4]

EdinetSrc ==
    [id |-> "edinet", name |-> "EDINET", type |-> "edinet",
     endpoint |-> "https://api.edinet-fsa.go.jp/api/v2/documents.json"]

WorldSrc ==
    [id |-> "world", name |-> "World RSS", type |-> "rss",
     url |-> "https://world.example/rss"]

AtomSrc ==
    [id |-> "atom", name |-> "Atom feed", type |-> "atom",
     url |-> "https://atom.example/feed"]

\* news.yaml: topic_packs as the sequence of its (name, pack) pairs, in key order
NewsConfig ==
    [topic_packs |-> <<
       [name |-> "investing_jp", enabled |-> TRUE, rules |-> InvestingRules,
        sources |-> <<KabuSrc,
                      EdinetSrc @@ [include_doc_type_codes |-> <<"120", "140">>]>>],
       [name |-> "sports", enabled |-> FALSE, sources |-> <<WorldSrc>>],
       [name |-> "world_general", enabled |-> TRUE,
        sources |-> <<WorldSrc, AtomSrc>>] >>]

\* lines 215, 227-234: the sources in processing order, each with its pack
RECURSIVE SourcesOf(_, _)
SourcesOf(packs, i) ==
    IF i > Len(packs) THEN <<>>
    ELSE LET pack == packs[i]
             here == IF Get(pack, "enabled", FALSE)
                     THEN [n \in 1..Len(Get(pack, "sources", <<>>)) |->
                             [pack_name |-> pack.name,
                              rules |-> Get(pack, "rules", [none |-> 0]),
                              src |-> pack.sources[n]]]
                     ELSE <<>>
         IN  here \o SourcesOf(packs, i + 1)

Sources(cfg) == SourcesOf(cfg.topic_packs, 1)

Parsed(d, hh, mi) ==
    [year |-> 2024, month |-> 11, day |-> d, hour |-> hh, minute |-> mi, second |-> 0]

\* a feed whose entries exercise the filter, the fallback resolver and the
\* deduplication
NewsFeed ==
    << [title |-> "Acme earnings up", summary |-> "stock rises on results",
        link |-> "https://n.example/1", published |-> "11/09 17:49"],
       [title |-> "PR: new gadget", summary |-> "",
        link |-> "https://n.example/2", published |-> "2024-11-09T08:49:00Z",
        published_parsed |-> Parsed(9, 8, 49)],
       [title |-> "PR earnings call", summary |-> "sponsored",
        link |-> "https://n.example/3"],
       [title |-> "yen slips\nagain", link |-> " https://n.example/1 ",
        updated |-> "2024-11-09 12:00", updated_parsed |-> Parsed(9, 3, 0)],
       [title |-> "[live] no link", summary |-> "yen"] >>

\* a feed with year-less dates that are not calendar dates
BadDateFeed ==
    << [title |-> "First", link |-> "https://n.example/4",
        published |-> "11/08 09:00"],
       [title |-> "Leap day", link |-> "https://n.example/5",
        published |-> "02/29 10:00"],
       [title |-> "Garbled", link |-> "https://n.example/6",
        published |-> "13/45 10:00"],
       [title |-> "Last", link |-> "https://n.example/7",
        published_parsed |-> Parsed(8, 1, 0)] >>

\* number of entries of a long feed, and of filings of a busy day
BulkSize == 90

BulkFeed(src) ==
    [n \in 1..BulkSize |->
       [title |-> "bulk " \o ToString(n),
        link |-> "https://" \o src.id \o ".example/" \o ToString(n),
        published_parsed |-> Parsed(1 + (n % 7), n % 24, n % 60)]]

HttpError(url) ==
    [raised |-> TRUE, err |-> "503 Server Error: Service Unavailable for url: " \o url]

Fetched(v) == [raised |-> FALSE, err |-> "", value |-> v]

Filings ==
    << [docTypeCode |-> "120", docID |-> "S100AAAA", docDescription |-> "Annual report",
        filerName |-> "Acme", secCode |-> "12340",
        submitDateTime |-> "2024-11-09 17:49"],
       [docTypeCode |-> "350", docID |-> "S100BBBB", docDescription |-> "Large holding",
        filerName |-> "Beta", submitDateTime |-> "2024-11-09 09:00"],
       [docID |-> "S100CCCC", docDescription |-> "Withdrawn", filerName |-> "Gamma"],
       [docTypeCode |-> "140", docID |-> "", docDescription |-> "Quarterly report"],
       [docTypeCode |-> "140", docID |-> "S100AAAA", docDescription |-> "Amendment",
        submitDateTime |-> "yesterday"] >>

BulkFilings ==
    [n \in 1..BulkSize |->
       [docTypeCode |-> IF n % 2 = 0 THEN "120" ELSE "140",
        docID |-> "S2" \o ToString(n),
        docDescription |-> "Report " \o ToString(n),
        submitDateTime |-> IF n % 3 = 0 THEN "2024-11-09 17:49" ELSE "2024-11-08 09:00"]]

\* What a source answers in one run, by name.  fetch_rss (lines 33-36) returns a
\* parsed feed or raises on a non-success status; fetch_edinet_daily (lines 38-42)
\* returns the decoded JSON body or raises: the filings of a day, a result list
\* holding a null, or a body that is a JSON list.
Response(src, answer) ==
    CASE answer = "http_error" -> HttpError(Get(src, "url", Get(src, "endpoint", "")))
      [] answer = "news" -> Fetched([entries |-> NewsFeed])
      [] answer = "bad_dates" -> Fetched([entries |-> BadDateFeed])
      [] answer = "bulk" -> Fetched([entries |-> BulkFeed(src)])
      [] answer = "filings" -> Fetched([results |-> Filings])
      [] answer = "bulk_filings" -> Fetched([results |-> BulkFilings])
      [] answer = "null_record" ->
             Fetched([results |-> <<Filings[1], [kind |-> "NoneType"], Filings[2]>>])
      [] answer = "list_body" -> Fetched([kind |-> "list"])
      [] answer = "none" -> Null

\* the answers a source of NewsConfig can get in a run: short feeds and a handful
\* of filings on a quiet day, long ones on a busy day.  A source that fetches
\* nothing gets none.
AnswersFor(src, key, d) ==
    IF Get(src, "type", "") = "rss"
    THEN IF d = "busy"
         THEN IF src.id = "kabu" THEN {"bulk"} ELSE {"bulk", "http_error"}
         ELSE IF src.id = "kabu" THEN {"news", "bad_dates"} ELSE {"http_error", "news"}
    ELSE IF Get(src, "type", "") = "edinet" /\ Strip(key) # ""
    THEN IF d = "busy" THEN {"bulk_filings", "list_body"} ELSE {"filings", "null_record"}
    ELSE {"none"}

\* now_jst() of the n-th run: the clock only advances
RunClock(n) ==
    [year |-> 2024 + (n \div 2), month |-> IF n % 2 = 1 THEN 12 ELSE 1,
     day |-> IF n % 2 = 1 THEN 31 ELSE 2, hour |-> 10, minute |-> 0, second |-> 0]

ApiKeys == { "", "key-1 " }

\* executions of main() in one behaviour
MaxRuns == 2

(***************************************************************************)
(* main(), lines 208-450.  The pages written to outputs/site and state.json *)
(* are not modelled.                                                        *)
(***************************************************************************)
Init ==
    /\ cfg_news = NewsConfig
    /\ day = "quiet"
    /\ local_offset \in {0, JstOffset}
    /\ runs = 0
    /\ pc = "idle"
    /\ run_at = Null
    /\ api_key \in ApiKeys
    /\ si = 1
    /\ all_items = <<>>
    /\ sources_status_lines = <<>>
    /\ trace = <<>>
    /\ inv_items = <<>>
    /\ gen_items = <<>>
    /\ digest_investing = <<>>
    /\ digest_general = <<>>
    /\ all_sorted = <<>>
    /\ log_exists = FALSE
    /\ log = <<>>
    /\ log_before = <<>>
    /\ fn_pc = "none"
    /\ fn_in = Null
    /\ fn_out = Null

\* lines 208-224
StartRun ==
    /\ pc \in {"idle", "done"}
    /\ runs < MaxRuns
    /\ pc' = "collect"
    /\ run_at' = RunClock(runs + 1)
    /\ si' = 1
    /\ all_items' = <<>>
    /\ sources_status_lines' = <<>>
    /\ trace' = <<>>
    /\ inv_items' = <<>>
    /\ gen_items' = <<>>
    /\ digest_investing' = <<>>
    /\ digest_general' = <<>>
    /\ all_sorted' = <<>>
    /\ log_before' = log
    /\ UNCHANGED <<cfg_news, day, local_offset, runs, api_key, log_exists, log, fn_vars>>

\* lines 234-320: one iteration of the loop over the sources
ProcessSource ==
    /\ pc = "collect"
    /\ si <= Len(Sources(cfg_news))
    /\ LET s == Sources(cfg_news)[si]
       IN  \E answer \in AnswersFor(s.src, api_key, day) :
             LET body == TryBody(s.pack_name, s.rules, s.src, Response(s.src, answer),
                                 api_key, run_at, local_offset)
             IN  /\ all_items' = all_items \o body.items
                 /\ sources_status_lines' =
                        Append(sources_status_lines, SourceStatus(s.src, body))
                 /\ trace' = Append(trace, [answer |-> answer, raised |-> body.raised,
                                            dropped |-> body.dropped,
                                            appended |-> body.appended])
    /\ si' = si + 1
    /\ UNCHANGED <<cfg_news, day, local_offset, runs, pc, run_at, api_key, inv_items,
                   gen_items, digest_investing, digest_general, all_sorted,
                   log_exists, log, log_before, fn_vars>>

\* items_by_pack.get(name, [])  (lines 322-324)
ItemsOfPack(items, name) == SelectSeq(items, LAMBDA it : it.topic_pack = name)

\* lines 322-331
Aggregate ==
    /\ pc = "collect"
    /\ si > Len(Sources(cfg_news))
    /\ inv_items' = sort_newest(dedupe_by_url(ItemsOfPack(all_items, "investing_jp")))
    /\ gen_items' = sort_newest(dedupe_by_url(ItemsOfPack(all_items, "world_general")))
    /\ digest_investing' = make_digest_block(inv_items', DefaultMaxLines)
    /\ digest_general' = make_digest_block(gen_items', DefaultMaxLines)
    /\ pc' = "log"
    /\ UNCHANGED <<cfg_news, day, local_offset, runs, run_at, api_key, si, all_items,
                   sources_status_lines, trace, all_sorted, log_exists, log,
                   log_before, fn_vars>>

\* lines 384-403
WriteLog ==
    /\ pc = "log"
    /\ all_sorted' = sort_newest(dedupe_by_url(all_items))
    /\ log_before' = log
    /\ log' = log \o NewRows(all_sorted', ReadExistingIds(log_exists, log))
    /\ log_exists' = TRUE
    /\ runs' = runs + 1
    /\ pc' = "done"
    /\ UNCHANGED <<cfg_news, day, local_offset, run_at, api_key, si, all_items,
                   sources_status_lines, trace, inv_items, gen_items,
                   digest_investing, digest_general, fn_vars>>

Next == StartRun \/ ProcessSource \/ Aggregate \/ WriteLog

Spec == Init /\ [][Next]_vars

\* the same program on busy days
InitBusy ==
    /\ cfg_news = NewsConfig
    /\ day = "busy"
    /\ local_offset \in {0, JstOffset}
    /\ runs = 0
    /\ pc = "idle"
    /\ run_at = Null
    /\ api_key \in ApiKeys
    /\ si = 1
    /\ all_items = <<>>
    /\ sources_status_lines = <<>>
    /\ trace = <<>>
    /\ inv_items = <<>>
    /\ gen_items = <<>>
    /\ digest_investing = <<>>
    /\ digest_general = <<>>
    /\ all_sorted = <<>>
    /\ log_exists = FALSE
    /\ log = <<>>
    /\ log_before = <<>>
    /\ fn_pc = "none"
    /\ fn_in = Null
    /\ fn_out = Null

SpecBusy == InitBusy /\ [][Next]_vars

(***************************************************************************)
(* Single calls of the pure functions, on arguments drawn from bounded sets *)
(***************************************************************************)
\* main() is not running
PipeIdle ==
    /\ cfg_news = Null
    /\ day = "quiet"
    /\ local_offset = 0
    /\ runs = 0
    /\ pc = "idle"
    /\ run_at = Null
    /\ api_key = ""
    /\ si = 1
    /\ all_items = <<>>
    /\ sources_status_lines = <<>>
    /\ trace = <<>>
    /\ inv_items = <<>>
    /\ gen_items = <<>>
    /\ digest_investing = <<>>
    /\ digest_general = <<>>
    /\ all_sorted = <<>>
    /\ log_exists = FALSE
    /\ log = <<>>
    /\ log_before = <<>>

\* longest argument list of a single call of dedupe_by_url / sort_newest
MaxSeqLen == 4

\* longest list of items drawn for a single call of make_digest_block
MaxDigestItems == 3

SeqsUpTo(S, n) == UNION { [1..k -> S] : k \in 0..n }

\* ---- parse_timestamp_fallback ----
TsStrings ==
    { "", "   ", "12/31 23:59", "1/5 7:05", " 11/09 17:49 ", "11/09  17:49 JST",
      "2024/11/09 17:49", "13/01 10:00", "00/10 10:00", "11/00 10:00",
      "02/29 10:00", "02/30 10:00", "04/31 00:00", "11/09 24:00", "11/09 17:60",
      "2024-11-09T17:49:00+09:00", "2024-11-09T08:49:00Z", "2024-11-09 17:49",
      "yesterday", "n/a" }

RunTimes ==
    { [year |-> 2024, month |-> 1, day |-> 2, hour |-> 10, minute |-> 0, second |-> 0],
      [year |-> 2024, month |-> 1, day |-> 15, hour |-> 6, minute |-> 30, second |-> 0],
      [year |-> 2024, month |-> 12, day |-> 31, hour |-> 23, minute |-> 0, second |-> 0],
      [year |-> 2023, month |-> 6, day |-> 15, hour |-> 12, minute |-> 0, second |-> 0],
      [year |-> 2025, month |-> 3, day |-> 1, hour |-> 0, minute |-> 30, second |-> 0],
      [year |-> 2024, month |-> 11, day |-> 9, hour |-> 18, minute |-> 0, second |-> 0] }

InitTs ==
    /\ PipeIdle
    /\ fn_pc = "call"
    /\ fn_in \in [published_str : TsStrings, now_dt : RunTimes]
    /\ fn_out = Null

CallTs ==
    /\ fn_pc = "call"
    /\ fn_pc' = "return"
    /\ fn_out' = parse_timestamp_fallback(fn_in.published_str, fn_in.now_dt)
    /\ UNCHANGED <<fn_in, pipe_vars>>

SpecTs == InitTs /\ [][CallTs]_vars

\* ---- dedupe_by_url ----
DedupePool ==
    { [title |-> "A", url |-> ""], [title |-> "A", url |-> "u1"],
      [title |-> "B", url |-> "u1"], [title |-> "C", url |-> "u1"],
      [title |-> "A", url |-> "u2"], [title |-> "B", url |-> "u2"],
      [title |-> "D"] }

InitDedupe ==
    /\ PipeIdle
    /\ fn_pc = "call"
    /\ fn_in \in SeqsUpTo(DedupePool, MaxSeqLen)
    /\ fn_out = Null

CallDedupe ==
    /\ fn_pc = "call"
    /\ fn_pc' = "return"
    /\ fn_out' = dedupe_by_url(fn_in)
    /\ UNCHANGED <<fn_in, pipe_vars>>

SpecDedupe == InitDedupe /\ [][CallDedupe]_vars

\* ---- sort_newest ----
SortPool ==
    { [title |-> "A", importance |-> 5, published_ts |-> 100],
      [title |-> "B", importance |-> 5, published_ts |-> 200],
      [title |-> "C", importance |-> 4, published_ts |-> 9999],
      [title |-> "D", importance |-> 5, published_ts |-> 100],
      [title |-> "E", importance |-> 3, published_ts |-> 0],
      [title |-> "F", published_ts |-> 9999],
      [title |-> "G", importance |-> 3] }

InitSort ==
    /\ PipeIdle
    /\ fn_pc = "call"
    /\ fn_in \in SeqsUpTo(SortPool, MaxSeqLen)
    /\ fn_out = Null

CallSort ==
    /\ fn_pc = "call"
    /\ fn_pc' = "return"
    /\ fn_out' = sort_newest(fn_in)
    /\ UNCHANGED <<fn_in, pipe_vars>>

SpecSort == InitSort /\ [][CallSort]_vars

\* ---- make_digest_block ----
RECURSIVE Repeat(_, _)
Repeat(c, n) ==
    IF n <= 0 THEN ""
    ELSE IF n = 1 THEN c
    ELSE Repeat(c, n \div 2) \o Repeat(c, n - (n \div 2))

\* a title one character longer than the longest title shown in full
LongTitle == Repeat("a", DigestTitleMax + 1)

DigestTitles ==
    { "Alpha", "[tag]  Alpha", "Beta   gamma", "[x]", LongTitle, "[t] " \o LongTitle }

DigestPool == [title : DigestTitles, published_ts : {100, 200}]

\* twenty items with distinct titles, newest last
ManyTitles == [n \in 1..20 |-> [title |-> "T" \o ToString(n), published_ts |-> 10 * n]]

InitDigest ==
    /\ PipeIdle
    /\ fn_pc = "call"
    /\ fn_in \in [items : SeqsUpTo(DigestPool, MaxDigestItems) \cup {ManyTitles},
                  max_lines : {1, 2, DefaultMaxLines}]
    /\ fn_out = Null

CallDigest ==
    /\ fn_pc = "call"
    /\ fn_pc' = "return"
    /\ fn_out' = make_digest_block(fn_in.items, fn_in.max_lines)
    /\ UNCHANGED <<fn_in, pipe_vars>>

SpecDigest == InitDigest /\ [][CallDigest]_vars

\* ---- the feed adapter: one source, lines 237-273 ----
\* longest list of entries / of filings drawn for a single call of an adapter
MaxEntries == 2

\* rules of a pack: absent, empty lists, one list only, both, an empty keyword
RuleSets ==
    { [none |-> 0],
      [allow_keywords |-> <<>>, deny_keywords |-> <<>>],
      [deny_keywords |-> <<"PR", "sponsored">>],
      [allow_keywords |-> <<"earnings">>],
      [deny_keywords |-> <<"">>, allow_keywords |-> <<"yen">>],
      InvestingRules }

EntryPool ==
    { [title |-> "PR earnings call", summary |-> "sponsored",
       link |-> "https://n.example/a", published_parsed |-> Parsed(9, 8, 0)],
      [title |-> "PR: new gadget", link |-> "https://n.example/b",
       published_parsed |-> Parsed(9, 8, 1)],
      [title |-> "Gadget", summary |-> "a sponsored\npost",
       link |-> "https://n.example/c", published_parsed |-> Parsed(9, 8, 2)],
      [title |-> "Acme earnings up", summary |-> "stock rises",
       link |-> "https://n.example/d", published_parsed |-> Parsed(9, 8, 3)],
      [title |-> "yen slips", link |-> "https://n.example/e",
       published_parsed |-> Parsed(9, 8, 4)],
      [title |-> "P", summary |-> "R", link |-> "https://n.example/f",
       published_parsed |-> Parsed(9, 8, 5)],
      [summary |-> "earn", link |-> "https://n.example/g",
       published_parsed |-> Parsed(9, 8, 6)] }

NonEmptySeqsUpTo(S, n) == UNION { [1..k -> S] : k \in 1..n }

InitRss ==
    /\ PipeIdle
    /\ fn_pc = "call"
    /\ fn_in \in [rules : RuleSets, entries : NonEmptySeqsUpTo(EntryPool, MaxEntries)]
    /\ fn_out = Null

CallRss ==
    /\ fn_pc = "call"
    /\ fn_pc' = "return"
    /\ fn_out' = TryBody("investing_jp", fn_in.rules, KabuSrc,
                         Fetched([entries |-> fn_in.entries]), "", RunClock(1), 0)
    /\ UNCHANGED <<fn_in, pipe_vars>>

SpecRss == InitRss /\ [][CallRss]_vars

\* ---- the EDINET adapter: one source, lines 275-311 ----
FilingPool ==
    { Filings[1], Filings[2], Filings[3], Filings[4],
      [docTypeCode |-> "", docID |-> "S100DDDD", docDescription |-> "Untyped"] }

\* the source with its allow-list absent, empty, or holding two codes
EdinetSources ==
    { EdinetSrc,
      EdinetSrc @@ [include_doc_type_codes |-> <<>>],
      EdinetSrc @@ [include_doc_type_codes |-> <<"120", "140">>] }

InitEdinet ==
    /\ PipeIdle
    /\ fn_pc = "call"
    /\ fn_in \in [src : EdinetSources, results : NonEmptySeqsUpTo(FilingPool, MaxEntries)]
    /\ fn_out = Null

CallEdinet ==
    /\ fn_pc = "call"
    /\ fn_pc' = "return"
    /\ fn_out' = TryBody("investing_jp", InvestingRules, fn_in.src,
                         Fetched([results |-> fn_in.results]), "key-1 ", RunClock(1), 0)
    /\ UNCHANGED <<fn_in, pipe_vars>>

SpecEdinet == InitEdinet /\ [][CallEdinet]_vars

(***************************************************************************)
(* Properties                                                              *)
(***************************************************************************)
UrlOf(it) == Get(it, "url", "")

\* the k-th smallest member of a set of numbers
Nth(S, k) == CHOOSE i \in S : Cardinality({ j \in S : j < i }) = k - 1

\* indexes of the items that carry a non-empty URL no earlier item carries
FirstSeen(items) ==
    { i \in 1..Len(items) :
        UrlOf(items[i]) # "" /\ \A j \in 1..(i - 1) : UrlOf(items[j]) # UrlOf(items[i]) }

\* C8: dedupe_by_url returns, in input order, the first item of every non-empty
\* URL: items without a URL or with an empty one are dropped, no URL occurs twice
\* in the result, and deduplicating the result again changes nothing.
C8_DedupeFirstSeen ==
    fn_pc = "return" =>
        LET keep == FirstSeen(fn_in)
        IN  /\ Len(fn_out) = Cardinality(keep)
            /\ \A k \in 1..Len(fn_out) : fn_out[k] = fn_in[Nth(keep, k)]
            /\ \A k \in 1..Len(fn_out) : UrlOf(fn_out[k]) # ""
            /\ \A k, m \in 1..Len(fn_out) :
                   UrlOf(fn_out[k]) = UrlOf(fn_out[m]) => k = m
            /\ dedupe_by_url(fn_out) = fn_out

\* a call on an item without a URL followed by three different items of one URL,
\* whose result keeps the first of the three
C8_Witness ==
    /\ fn_pc = "return"
    /\ \E i \in 1..Len(fn_in) : "url" \notin DOMAIN fn_in[i]
    /\ \E i, j, k \in 1..Len(fn_in) :
          /\ i < j /\ j < k
          /\ UrlOf(fn_in[i]) # ""
          /\ UrlOf(fn_in[i]) = UrlOf(fn_in[j]) /\ UrlOf(fn_in[j]) = UrlOf(fn_in[k])
          /\ fn_in[i] # fn_in[j]
    /\ Len(fn_out) = 1
    /\ Len(fn_in) = 4

ImportanceOf(it) == Get(it, "importance", DefaultImportance)

TimeOf(it) == Get(it, "published_ts", 0)

SameRank(a, b) == ImportanceOf(a) = ImportanceOf(b) /\ TimeOf(a) = TimeOf(b)

Count(x, seq) == Cardinality({ i \in 1..Len(seq) : seq[i] = x })

\* C9: sort_newest returns a permutation of its input in which importance never
\* increases and, among items of equal importance, published_ts never increases;
\* items equal on both keys keep the order they had in the input.
C9_SortNewestStable ==
    fn_pc = "return" =>
        /\ Len(fn_out) = Len(fn_in)
        /\ \A i \in 1..Len(fn_in) : Count(fn_in[i], fn_out) = Count(fn_in[i], fn_in)
        /\ \A i, j \in 1..Len(fn_out) :
               i < j =>
                  \/ ImportanceOf(fn_out[i]) > ImportanceOf(fn_out[j])
                  \/ /\ ImportanceOf(fn_out[i]) = ImportanceOf(fn_out[j])
                     /\ TimeOf(fn_out[i]) >= TimeOf(fn_out[j])
        /\ \A i \in 1..Len(fn_in) :
               SelectSeq(fn_out, LAMBDA x : SameRank(x, fn_in[i]))
                  = SelectSeq(fn_in, LAMBDA x : SameRank(x, fn_in[i]))

\* a call that reorders its input: a less important item with a later timestamp
\* came first, and two different items are equal on both keys
C9_Witness ==
    /\ fn_pc = "return"
    /\ fn_out # fn_in
    /\ \E i, j \in 1..Len(fn_in) :
          /\ i < j
          /\ ImportanceOf(fn_in[i]) < ImportanceOf(fn_in[j])
          /\ TimeOf(fn_in[i]) > TimeOf(fn_in[j])
    /\ \E i, j \in 1..Len(fn_in) :
          i < j /\ fn_in[i] # fn_in[j] /\ SameRank(fn_in[i], fn_in[j])

\* k occurs in text as a substring
Substring(k, text) ==
    \E a \in 0..Len(text) : \E b \in a..Len(text) : SubSeq(text, a + 1, b) = k

\* title + " " + summary of a feed entry, as the adapter reads them
TextOf(e) == safe_text(Get(e, "title", "")) \o " " \o safe_text(Get(e, "summary", ""))

HasKeyword(kws, text) == \E n \in 1..Len(kws) : Substring(kws[n], text)

\* C10: the feed adapter drops an entry exactly when title + " " + summary holds
\* a deny keyword and no allow keyword; every other entry is retained, so an entry
\* with both kinds of keyword or with neither yields an item, and with absent or
\* empty keyword lists every entry does, without an error.
C10_DropIffDenyAndNoAllow ==
    fn_pc = "return" =>
        LET allow == Get(fn_in.rules, "allow_keywords", <<>>)
            deny == Get(fn_in.rules, "deny_keywords", <<>>)
        IN  /\ ~fn_out.raised
            /\ \A i \in 1..Len(fn_in.entries) :
                  /\ i \in fn_out.dropped <=>
                        /\ HasKeyword(deny, TextOf(fn_in.entries[i]))
                        /\ ~HasKeyword(allow, TextOf(fn_in.entries[i]))
                  /\ i \notin fn_out.dropped <=> i \in SeqToSet(fn_out.appended)
            /\ Len(fn_out.items) = Len(fn_out.appended)
            /\ \A k \in 1..Len(fn_out.items) :
                  fn_out.items[k].url = safe_text(Get(fn_in.entries[fn_out.appended[k]],
                                                      "link", ""))
            /\ Len(deny) = 0 => fn_out.dropped = {}

\* a call with both keyword lists set: the first entry holds a deny and an allow
\* keyword and is retained, the second holds only a deny keyword and is dropped
C10_Witness ==
    /\ fn_pc = "return"
    /\ "entries" \in DOMAIN fn_in
    /\ Len(fn_in.entries) = 2
    /\ LET allow == Get(fn_in.rules, "allow_keywords", <<>>)
           deny == Get(fn_in.rules, "deny_keywords", <<>>)
       IN  /\ HasKeyword(deny, TextOf(fn_in.entries[1]))
           /\ HasKeyword(allow, TextOf(fn_in.entries[1]))
           /\ HasKeyword(deny, TextOf(fn_in.entries[2]))
           /\ ~HasKeyword(allow, TextOf(fn_in.entries[2]))
    /\ fn_out.appended = <<1>>
    /\ fn_out.dropped = {2}

CodeOf(r) == Get(r, "docTypeCode", "")

AllowList(src) == SeqToSet(Get(src, "include_doc_type_codes", <<>>))

\* C6 as stated: with a non-empty allow-list the EDINET adapter emits no item
\* whose document-type code (missing and empty codes included) is outside the
\* list; with an empty or absent allow-list it skips no record.
C6_EmitsOnlyListedCodes ==
    fn_pc = "return" =>
        /\ AllowList(fn_in.src) # {} =>
              \A k \in 1..Len(fn_out.appended) :
                  CodeOf(fn_in.results[fn_out.appended[k]]) \in AllowList(fn_in.src)
        /\ AllowList(fn_in.src) = {} => fn_out.dropped = {}

\* C6 amended: the EDINET adapter skips a record exactly when the allow-list is
\* non-empty and the record's document-type code is non-empty and outside the
\* list; every other record yields an item, so a record without a code is emitted
\* whatever the list, and an empty or absent list skips nothing.
C6_SkipsOnlyOtherNonEmptyCodes ==
    fn_pc = "return" =>
        /\ ~fn_out.raised
        /\ \A i \in 1..Len(fn_in.results) :
              /\ i \in fn_out.dropped <=>
                    /\ AllowList(fn_in.src) # {}
                    /\ CodeOf(fn_in.results[i]) # ""
                    /\ CodeOf(fn_in.results[i]) \notin AllowList(fn_in.src)
              /\ i \notin fn_out.dropped <=> i \in SeqToSet(fn_out.appended)
        /\ Len(fn_out.items) = Len(fn_out.appended)
        /\ AllowList(fn_in.src) = {} => fn_out.dropped = {}

\* a call with a non-empty allow-list that skips a record of another code and
\* emits a record that has no code
C6_Witness ==
    /\ fn_pc = "return"
    /\ "results" \in DOMAIN fn_in
    /\ AllowList(fn_in.src) # {}
    /\ \E i \in fn_out.dropped : CodeOf(fn_in.results[i]) = "350"
    /\ \E k \in 1..Len(fn_out.appended) :
          "docTypeCode" \notin DOMAIN fn_in.results[fn_out.appended[k]]

\* C4: parse_timestamp_fallback never raises: for every string and every run time
\* it returns an integer.
C4_FallbackNeverRaises ==
    fn_pc = "return" => ~fn_out.raised /\ fn_out.value \in Int

CleanTitleOf(it) == clean_title_for_digest(Get(it, "title", ""))

\* the distinct non-empty cleaned titles of a list of items
CleanTitles(items) == { CleanTitleOf(items[i]) : i \in 1..Len(items) } \ {""}

\* a cleaned title as a digest line shows it
ShownTitle(t) ==
    IF Len(t) > DigestTitleMax THEN SubSeq(t, 1, DigestTitleKeep) \o Ellipsis ELSE t

\* published_ts of the newest item shown as the given digest line
NewestShownAs(line, items) ==
    LET ts == { TimeOf(items[i]) :
                  i \in { j \in 1..Len(items) : ShownTitle(CleanTitleOf(items[j])) = line } }
    IN  CHOOSE t \in ts : \A u \in ts : u <= t

\* C5: for items with d distinct non-empty cleaned titles and a cap c,
\* make_digest_block yields min(c, d) lines, newest first, and items with the same
\* cleaned title, whatever its length, share one line.
C5_DigestLinesPerTitle ==
    fn_pc = "return" =>
        /\ Len(fn_out) = Min(fn_in.max_lines, Cardinality(CleanTitles(fn_in.items)))
        /\ \A k, m \in 1..Len(fn_out) :
              k < m => NewestShownAs(fn_out[k], fn_in.items)
                          >= NewestShownAs(fn_out[m], fn_in.items)
        /\ \A t \in CleanTitles(fn_in.items) :
              Cardinality({ k \in 1..Len(fn_out) : fn_out[k] = ShownTitle(t) }) <= 1

\* C1: no two rows of news_log.csv carry the same item id, however many runs
\* wrote the file.
C1_LogIdsUnique ==
    \A i, j \in 1..Len(log) : log[i][1] = log[j][1] => i = j

\* the items the i-th configured source has in all_items
ItemsOfSource(i) ==
    LET s == Sources(cfg_news)[i]
    IN  SelectSeq(all_items, LAMBDA it : /\ it.topic_pack = s.pack_name
                                         /\ it.source = s.src.name)

\* the ranked output of a topic pack
RankedOf(pack_name) == IF pack_name = "investing_jp" THEN inv_items ELSE gen_items

HasUrl(items, u) == \E n \in 1..Len(items) : items[n].url = u

\* C2: a run appends one status per source of an enabled pack, in configured
\* order; a source whose processing raises ends with ok = FALSE and a non-empty
\* error, the sources after it are processed all the same, and the items of the
\* sources that did not raise are in all_items and reach the ranked output of
\* their pack and the cross-topic ranking.
C2_SourceIsolation ==
    LET srcs == Sources(cfg_news)
        collected == pc \in {"log", "done"}
    IN  /\ pc = "collect" => Len(sources_status_lines) = si - 1
        /\ collected => Len(sources_status_lines) = Len(srcs)
        /\ Len(trace) = Len(sources_status_lines)
        /\ \A i \in 1..Len(sources_status_lines) :
              /\ sources_status_lines[i].name = srcs[i].src.name
              /\ sources_status_lines[i].type = srcs[i].src.type
              /\ trace[i].raised =>
                    /\ ~sources_status_lines[i].ok
                    /\ sources_status_lines[i].error # ""
              /\ ~trace[i].raised =>
                    /\ Len(ItemsOfSource(i)) = Len(trace[i].appended)
                    /\ collected =>
                          \A n \in 1..Len(ItemsOfSource(i)) :
                              ItemsOfSource(i)[n].url # "" =>
                                 /\ HasUrl(RankedOf(srcs[i].pack_name),
                                           ItemsOfSource(i)[n].url)
                                 /\ pc = "done" =>
                                       HasUrl(all_sorted, ItemsOfSource(i)[n].url)

\* a finished run in which the first two sources raised and the third one's items
\* are ranked
C2_Witness ==
    /\ pc = "done"
    /\ trace[1].raised
    /\ trace[2].raised
    /\ ~trace[3].raised
    /\ Len(trace[3].appended) > 0
    /\ Len(gen_items) > 0
    /\ Len(sources_status_lines) = 4

\* C3: a source whose status is not ok has no item in all_items.
C3_FailedSourceContributesNothing ==
    \A i \in 1..Len(sources_status_lines) :
        ~sources_status_lines[i].ok => Len(ItemsOfSource(i)) = 0

\* rows appended by the run that last opened the log
RowsAdded == SubSeq(log, Len(log_before) + 1, Len(log))

\* the slice all_sorted[:80]
TopOfRanking == Take(all_sorted, LogCap)

\* C7: the log writer only appends: the rows the file held when the run opened it
\* are a prefix of its rows afterwards, a run adds at most 80 rows, every added
\* row is the row of an item among the first 80 of the ranked list, and the added
\* rows follow the order of that list.
C7_LogAppendOnly ==
    /\ Len(log_before) <= Len(log)
    /\ SubSeq(log, 1, Len(log_before)) = log_before
    /\ pc = "done" =>
          /\ Len(RowsAdded) <= LogCap
          /\ \A k \in 1..Len(RowsAdded) :
                \E n \in 1..Len(TopOfRanking) : LogRow(TopOfRanking[n]) = RowsAdded[k]
          /\ \A k \in 1..(Len(RowsAdded) - 1) :
                \E n \in 1..Len(TopOfRanking) : \E m \in (n + 1)..Len(TopOfRanking) :
                    /\ TopOfRanking[n].id = RowsAdded[k][1]
                    /\ TopOfRanking[m].id = RowsAdded[k + 1][1]

\* a run that ranked more than 80 items and added 80 rows to a log that already
\* had rows
C7_Witness ==
    /\ pc = "done"
    /\ Len(all_sorted) > LogCap
    /\ Len(log_before) > 0
    /\ Len(RowsAdded) = LogCap

====
